---- MODULE Spec2Model ----
(***************************************************************************)
(* NodeJSFileWatcher (src/unnamed/part_002): a watcher of one path that    *)
(* filters raw change events by exclude patterns, buffers them, and        *)
(* delivers them coalesced through a delayer.                              *)
(*                                                                         *)
(* ThrottledDelayer, coalesceEvents, the glob parser and the Disposable    *)
(* base class are imported by part_002 and are not among the source files; *)
(* they are modelled from the specification (sections 3, 4.1, 5 and 9).    *)
(***************************************************************************)
EXTENDS Integers, Sequences, FiniteSets, TLC

\* ------------------------------------------------------------------ bounds

\* Most raw events the pending buffer holds before a flush must run, in
\* Spec and in LiveSpec.
MaxBuffer == 3
MaxLiveBuffer == 2

\* Most calls of _registerLanguages in RegistrySpec.
MaxRegistrations == 3

\* Most equal lines before, between and after the line changes MergeSpec
\* hands to _mergeAdjacent.
MaxGap == 6

\* The calls of setInput on one editor.
MaxCalls == 2

\* ------------------------------------------------------- program constants

\* vs/base/node/watcher CHANGE_BUFFER_DELAY; time is counted in units of it.
CHANGE_BUFFER_DELAY == 1

\* new ThrottledDelayer<void>(CHANGE_BUFFER_DELAY * 2)
\* (FileChangesDelayHalved: the delay without the factor.)
FileChangesDelayHalved == CHANGE_BUFFER_DELAY
FileChangesDelay == CHANGE_BUFFER_DELAY * 2

\* ------------------------------------------------------------------- paths

\* A path is a sequence of segments.
WatchPath == <<"w">>        \* this.path, as passed to the constructor
ResolvedPath == <<"r">>     \* realpath(this.path) when this.path is a link

\* Entries the underlying primitive reports inside a watched folder.
Names == {"a", "c.log"}

join(p, name) == Append(p, name)
basename(p) == p[Len(p)]

\* this.excludes, as passed to the constructor.
Excludes == <<"**/*.log">>

\* glob.parse(pattern)(path): the one pattern used matches *.log entries.
GlobMatch(pattern, p) ==
    /\ pattern = "**/*.log"
    /\ basename(p) \in {"c.log"}

\* isPathIgnored(absolutePath, ignored): ignored.some(ignore => ignore(path))
\* (isPathIgnoredNever: a filter that lets every path through.)
isPathIgnoredNever(absolutePath, ignored) == FALSE
isPathIgnored(absolutePath, ignored) ==
    \E i \in 1..Len(ignored) : GlobMatch(ignored[i], absolutePath)

\* ------------------------------------------------------------------ events

ChangeTypes == {"ADDED", "UPDATED", "DELETED"}

\* The folder callback's mapping of the primitive's event type.
FolderChangeType(eventType) ==
    IF eventType = "changed" THEN "UPDATED"
    ELSE IF eventType = "added" THEN "ADDED" ELSE "DELETED"

\* The file callback's mapping of the primitive's event type.
FileChangeType(eventType) ==
    IF eventType = "changed" THEN "UPDATED" ELSE "DELETED"

\* The path the folder callback reports: join(this.path, basename(path)).
\* (FolderEventPathRaw: the path as the primitive reports it.)
FolderEventPathRaw(rawPath) == rawPath
FolderEventPath(rawPath) == join(WatchPath, basename(rawPath))

\* The path the file callback reports: this.path.
FileEventPath == WatchPath

Change(e) == [type |-> e.type, path |-> e.path]

RECURSIVE Changes(_)
Changes(events) ==
    IF events = <<>> THEN <<>>
    ELSE <<Change(Head(events))>> \o Changes(Tail(events))

\* ------------------------------------------------------------------- state

VARIABLES
    pc,                 \* startWatching: "stat", "realpath" or "done"
    isDirectory,        \* stat.isDirectory(), known once the stat resolved
    dangling,           \* symbolicLink.dangling, while the realpath is awaited
    pathToWatch,        \* the path handed to watchFolder / watchFile
    watching,           \* a live subscription to the watch primitive exists
    isDisposed,         \* this.isDisposed
    verboseLogging,     \* this.verboseLogging
    fileChangesBuffer,  \* this.fileChangesBuffer
    timer,              \* the delayer's timer: <<>> idle, <<n>> fires in n ticks
    pending,            \* ghost: ids buffered and not yet captured by a flush
    sinceFire,          \* ghost: ticks since the last change callback, saturating
    sinceArm,           \* ghost: ticks since the idle timer was armed, saturating
    delayOut,           \* ghost: <<sinceArm, sinceFire>> as the last flush began
    op,                 \* ghost: the operation that ran last
    startIn,            \* ghost: what the await of the last step settled with
    ended,              \* ghost: how startWatching returned, "" while it runs
    eventIn,            \* ghost: the event the last onFileChange received, or <<>>
    flushIn,            \* ghost: the list the last flush captured
    changeOut,          \* ghost: the batches onDidFilesChange got in the last step
    logOut              \* ghost: the entries onLogMessage got in the last step

vars == <<pc, isDirectory, dangling, pathToWatch, watching, isDisposed,
          verboseLogging, fileChangesBuffer, timer, pending,
          sinceFire, sinceArm, delayOut, op, startIn, ended, eventIn, flushIn,
          changeOut, logOut>>

\* A second watcher of the same path, with the same excludes, that is fed
\* the raw events, timer fires and owner calls of the first, except for
\* setVerboseLogging, which it is given on its own.
VARIABLES
    twin                \* its verboseLogging, fileChangesBuffer, timer and
                        \* the batches its onDidFilesChange got in the last step

hyperVars == <<vars, twin>>

\* Ghost: a buffered event is tagged with its position in the buffer, which
\* tells the events of one buffering window apart.
NextId(buffer) == Len(buffer)

Ids(events) == {events[i].id : i \in 1..Len(events)}

\* --------------------------------------------------------------- coalescer

\* coalesceEvents (vs/platform/files/common/watcher), from section 4.1: one
\* entry per path; repeated updates merge; add-then-delete and delete-then-add
\* of one path cancel out.  Section 9 leaves the other pairs to a
\* deterministic merge table: a flush coalesces with one of MergeTables,
\* "keep" (the entry keeps its type) or "replace" (the entry takes the later
\* type).
MergeTables == {"keep", "replace"}

IndexOfPath(acc, p) ==
    IF \E j \in 1..Len(acc) : acc[j].path = p
    THEN CHOOSE j \in 1..Len(acc) : acc[j].path = p
    ELSE 0

RemoveAt(acc, j) == SubSeq(acc, 1, j - 1) \o SubSeq(acc, j + 1, Len(acc))

processEvent(table, acc, e) ==
    LET j == IndexOfPath(acc, e.path) IN
    IF j = 0 THEN Append(acc, Change(e))
    ELSE IF acc[j].type = "ADDED" /\ e.type = "DELETED" THEN RemoveAt(acc, j)
    ELSE IF acc[j].type = "DELETED" /\ e.type = "ADDED" THEN RemoveAt(acc, j)
    ELSE IF table = "replace" THEN [acc EXCEPT ![j].type = e.type]
    ELSE acc

RECURSIVE coalesceFrom(_, _, _)
coalesceFrom(table, acc, events) ==
    IF events = <<>> THEN acc
    ELSE coalesceFrom(table, processEvent(table, acc, Head(events)), Tail(events))

coalesceEvents(table, events) == coalesceFrom(table, <<>>, events)

\* ----------------------------------------------------------------- logging

\* error(error): onLogMessage({type: 'error'}) unless disposed.
\* (errorUngated: error without the isDisposed check.)
errorUngated(message) == <<[type |-> "error", message |-> message]>>
error(message) ==
    IF ~isDisposed
    THEN <<[type |-> "error", message |-> message]>>
    ELSE <<>>

\* trace(message): onLogMessage({type: 'trace'}) unless disposed or quiet.
trace(message) ==
    IF ~isDisposed /\ verboseLogging
    THEN <<[type |-> "trace", message |-> message]>>
    ELSE <<>>

\* ----------------------------------------------------------------- delayer

\* ThrottledDelayer.trigger, from sections 4.1 and 9: the timer is armed
\* with the delay only if it is not already armed.  (triggerRestart: a
\* delayer that starts the delay anew on every call.)
triggerRestart(t) == <<FileChangesDelay>>
trigger(t) == IF t = <<>> THEN <<FileChangesDelay>> ELSE t

\* The registered delayer under super.dispose(), from section 5: a timer
\* already queued is not cancelled and fires after disposal.
disposeDelayer(t) == t

\* The registered subscription under super.dispose(), from section 4.1:
\* dispose() unsubscribes from the underlying primitive.
disposeWatcher(live) == FALSE

\* this._register(watchFolder(...)) / this._register(watchFile(...)): the
\* subscription is made and kept for dispose() to end.
register(live) == TRUE

\* ------------------------------------------------------------------- flush

\* const fileChanges = this.fileChangesBuffer
\* (flushCapturedNone: a task that reads the buffer after resetting it.)
flushCapturedNone(buffer) == <<>>
flushCaptured(buffer) == buffer

\* this.fileChangesBuffer = []
\* (flushSwappedKeep: a task that does not reset the buffer.)
flushSwappedKeep(buffer) == buffer
flushSwapped(buffer) == <<>>

\* const coalescedFileChanges = coalesceEvents(fileChanges)
\* (flushCoalescedRaw: a task that delivers the captured list as it is.)
flushCoalescedRaw(table, fileChanges) == Changes(fileChanges)
flushCoalesced(table, fileChanges) == coalesceEvents(table, fileChanges)

\* if (coalescedFileChanges.length > 0) this.onDidFilesChange(...)
\* (flushFireAlways: a task without the length check.)
flushFireAlways(coalesced) == <<coalesced>>
flushFire(coalesced) == IF Len(coalesced) > 0 THEN <<coalesced>> ELSE <<>>

\* The per-event traces of the flush.
flushTraces(coalesced) ==
    IF verboseLogging
    THEN LET t == trace("normalized") IN
         IF t = <<>> THEN <<>> ELSE [i \in 1..Len(coalesced) |-> t[1]]
    ELSE <<>>

\* ---------------------------------------------------- the other components
\* The registry and the diff review live beside the watcher; restVars is
\* their state, which no step of a watcher touches.
\* The registry the suite of src/unnamed/part_000 exercises
\* (vs/editor/common/services/languagesRegistry).  Its implementation is not
\* among the source files; the merge below is the registry the assertions
\* of part_000 describe, and RegistryTests replays those assertions on it.

VARIABLES
    languages,          \* this._languages: language id -> resolved language
    registrations       \* ghost: the language definitions registered so far

regVars == <<languages, registrations>>

LanguageIds == {"a", "b"}

\* The aliases arrays a definition of a language may carry (besides none
\* and the empty array).  No alias of one language is, ignoring case, an id
\* or an alias of another, and no alias is the empty string.
AliasLists(id) ==
    IF id = "a" THEN {<<"A1", "A2">>, <<"a1", "A3">>} ELSE {<<"B1">>}

\* The mimetypes arrays a definition may carry (<<>>: none).
MimetypeLists(id) ==
    IF id = "a" THEN {<<>>, <<"text/a">>, <<"text/a2", "text/a">>}
    ELSE {<<>>, <<"text/b">>}

\* ILanguageExtensionPoint, as far as names and mimetypes go.  hasAliases
\* tells a definition with an aliases array from one without the field.
\* A definition that carries names and mimetypes only.  extensions and
\* filenames are <<>> for none; configuration is <<>> for none and <<uri>>
\* for the configuration file uri.
Definition(id, hasAliases, aliases, mimetypes) ==
    [id |-> id, hasAliases |-> hasAliases, aliases |-> aliases,
     mimetypes |-> mimetypes, extensions |-> <<>>, filenames |-> <<>>,
     configuration |-> <<>>]

LanguageDefinitions ==
    UNION {
        {Definition(id, FALSE, <<>>, m), Definition(id, TRUE, <<>>, m)}
        \cup {Definition(id, TRUE, al, m) : al \in AliasLists(id)}
        : <<id, m>> \in {<<i, ml>> \in LanguageIds \X
                             UNION {MimetypeLists(i) : i \in LanguageIds} :
                            ml \in MimetypeLists(i)}}

\* The definitions RegistryFilesSpec registers: extensions, filenames and
\* a configuration, for a language without the aliases field or with the
\* alias 'aName'.
FileDefinitions ==
    {[Definition("a", FALSE, <<>>, <<>>) EXCEPT
          !.extensions = e, !.filenames = f, !.configuration = c]
        : e \in {<<>>, <<"aExt">>, <<"aExt2", "aExt3">>},
          f \in {<<>>, <<"aFilename">>},
          c \in {<<>>, <<"conf.json">>}}
    \cup {[Definition("a", TRUE, <<"aName">>, <<>>) EXCEPT
              !.extensions = <<"aExt">>, !.filenames = <<"aFilename2">>,
              !.configuration = <<"conf2.json">>],
          [Definition("b", FALSE, <<>>, <<>>) EXCEPT
              !.extensions = <<"bExt">>, !.filenames = <<"bFilename">>],
          [Definition("b", FALSE, <<>>, <<>>) EXCEPT
              !.extensions = <<"bExt2">>, !.configuration = <<"confB.json">>]}

\* String.prototype.toLowerCase on the names the model and the suite use.
toLowerCase(str) ==
    CASE str = "A1" -> "a1"
      [] str = "A2" -> "a2"
      [] str = "A3" -> "a3"
      [] str = "A4" -> "a4"
      [] str = "B1" -> "b1"
      [] str = "aName" -> "aname"
      [] str = "LangName" -> "langname"
      [] str = "BetterLanguageName" -> "betterlanguagename"
      [] str = "langId" -> "langid"
      [] str = "outputLangId" -> "outputlangid"
      [] OTHER -> str

\* The order getSortedRegisteredLanguageNames sorts names in (ignoring
\* case), on the names the model and the suite use.
NameOrder ==
    <<"a", "A1", "a1", "A3", "aName", "b", "B1", "BetterLanguageName",
      "langId", "LangName">>

\* A language just created by _registerLanguage: no name, nothing merged.
\* name is <<>> for no name (null) and <<n>> for the name n.
NewLanguage ==
    [name |-> <<>>, mimetypes |-> <<>>, aliases |-> <<>>, extensions |-> <<>>,
     filenames |-> <<>>, configurationFiles |-> <<>>]

\* The generated mimetype of a definition that lists none.
generatedMime(id) == "text/x-" \o id

\* _mergeLanguage: the name after merging lang into resolved.  An empty
\* aliases array signals "no name" and leaves the name as it is; a
\* non-empty one sets the name to its first alias; without the field the id
\* becomes the name if there is none yet.
\* (mergedNameFirstWins: a merge that never replaces a name;
\* mergedNameIdForEmpty: a merge that treats an empty aliases array like a
\* missing field.)
mergedNameFirstWins(resolved, lang) ==
    IF resolved.name # <<>> THEN resolved.name
    ELSE IF lang.hasAliases /\ lang.aliases = <<>> THEN <<>>
    ELSE IF lang.hasAliases THEN <<lang.aliases[1]>>
    ELSE <<lang.id>>
mergedNameIdForEmpty(resolved, lang) ==
    IF lang.aliases # <<>> THEN <<lang.aliases[1]>>
    ELSE IF resolved.name = <<>> THEN <<lang.id>>
    ELSE resolved.name
mergedName(resolved, lang) ==
    IF lang.hasAliases /\ lang.aliases = <<>> THEN resolved.name
    ELSE IF lang.hasAliases THEN <<lang.aliases[1]>>
    ELSE IF resolved.name = <<>> THEN <<lang.id>>
    ELSE resolved.name

\* _mergeLanguage: the mimetypes after the merge; the listed ones, or the
\* generated one, are appended.
\* (mergedMimetypesLastWins: a merge that puts the new mimetypes first.)
mergedMimetypesLastWins(resolved, lang) ==
    (IF lang.mimetypes # <<>> THEN lang.mimetypes
     ELSE <<generatedMime(lang.id)>>) \o resolved.mimetypes
mergedMimetypes(resolved, lang) ==
    resolved.mimetypes \o
    (IF lang.mimetypes # <<>> THEN lang.mimetypes
     ELSE <<generatedMime(lang.id)>>)

\* _mergeLanguage: the aliases after the merge; the id and every alias of
\* the definition are appended.
\* (mergedAliasesReplaced: a merge that keeps only the aliases of the last
\* definition.)
mergedAliasesReplaced(resolved, lang) == <<lang.id>> \o lang.aliases
mergedAliases(resolved, lang) == resolved.aliases \o <<lang.id>> \o lang.aliases

\* _mergeLanguage: the extensions after the merge; those of a definition
\* that carries a configuration (the primary definition) are put first,
\* others are appended.
\* (mergedExtensionsAppended: a merge that always appends.)
mergedExtensionsAppended(resolved, lang) == resolved.extensions \o lang.extensions
mergedExtensions(resolved, lang) ==
    IF lang.configuration # <<>>
    THEN lang.extensions \o resolved.extensions
    ELSE resolved.extensions \o lang.extensions

\* _mergeLanguage: the filenames after the merge.
mergedFilenames(resolved, lang) == resolved.filenames \o lang.filenames

\* _mergeLanguage: the configuration files after the merge.
mergedConfigurationFiles(resolved, lang) ==
    resolved.configurationFiles \o lang.configuration

_mergeLanguage(resolved, lang) ==
    [name |-> mergedName(resolved, lang),
     mimetypes |-> mergedMimetypes(resolved, lang),
     aliases |-> mergedAliases(resolved, lang),
     extensions |-> mergedExtensions(resolved, lang),
     filenames |-> mergedFilenames(resolved, lang),
     configurationFiles |-> mergedConfigurationFiles(resolved, lang)]

\* _registerLanguage: the language is created on its first definition and
\* the definition is merged into it.
_registerLanguage(langs, lang) ==
    LET resolved == IF lang.id \in DOMAIN langs THEN langs[lang.id]
                    ELSE NewLanguage
    IN  [id \in DOMAIN langs \cup {lang.id} |->
            IF id = lang.id THEN _mergeLanguage(resolved, lang) ELSE langs[id]]

\* getLanguageName: the name, or <<>> for null.
getLanguageName(langs, id) ==
    IF id \in DOMAIN langs THEN langs[id].name ELSE <<>>

\* getMimeType: the first mimetype, or <<>> for null.
getMimeType(langs, id) ==
    IF id \in DOMAIN langs /\ langs[id].mimetypes # <<>>
    THEN <<langs[id].mimetypes[1]>>
    ELSE <<>>

\* getExtensions, getFilenames, getConfigurationFiles: the lists of the
\* language with that id, or the empty list.
getExtensions(langs, languageId) ==
    IF languageId \in DOMAIN langs THEN langs[languageId].extensions ELSE <<>>

getFilenames(langs, languageId) ==
    IF languageId \in DOMAIN langs THEN langs[languageId].filenames ELSE <<>>

getConfigurationFiles(langs, languageId) ==
    IF languageId \in DOMAIN langs THEN langs[languageId].configurationFiles
    ELSE <<>>

\* getSortedRegisteredLanguageNames: one entry for every language that has
\* a name, sorted by name.
getSortedRegisteredLanguageNames(langs) ==
    LET named(n) == {id \in DOMAIN langs : langs[id].name = <<n>>}
        present == SelectSeq(NameOrder, LAMBDA n : named(n) # {})
    IN  [i \in 1..Len(present) |->
            [languageName |-> present[i],
             languageId |-> CHOOSE id \in named(present[i]) : TRUE]]

\* getLanguageIdByLanguageName: the language that has the name among its
\* aliases, compared in lower case; <<>> for null.
getLanguageIdByLanguageName(langs, languageName) ==
    LET lower == toLowerCase(languageName)
        ids == {id \in DOMAIN langs :
                   \E k \in 1..Len(langs[id].aliases) :
                       toLowerCase(langs[id].aliases[k]) = lower}
    IN  IF ids = {} THEN <<>> ELSE <<CHOOSE id \in ids : TRUE>>

\* The suite of part_000, as far as names, mimetypes and aliases go: the
\* registry after the definitions of a test answers as the test asserts.
RECURSIVE registerAll(_, _)
registerAll(langs, defs) ==
    IF defs = <<>> THEN langs
    ELSE registerAll(_registerLanguage(langs, Head(defs)), Tail(defs))

Named(id, aliases, mimetypes) == Definition(id, TRUE, aliases, mimetypes)

Unnamed(id, mimetypes) == Definition(id, FALSE, <<>>, mimetypes)

RegistryTests ==
    LET Entry(n, id) == [languageName |-> n, languageId |-> id]
        output == registerAll(<<>>, <<Named("outputLangId", <<>>,
                                            <<"outputLanguageMimeType">>)>>)
        alias == registerAll(<<>>, <<Named("langId", <<"LangName">>, <<"bla">>)>>)
        noAlias == registerAll(<<>>, <<Unnamed("langId", <<"bla">>)>>)
        bug4360 == registerAll(alias, <<Named("langId", <<>>, <<"bla">>)>>)
        issue5278 == registerAll(alias, <<Named("langId", <<"BetterLanguageName">>,
                                                <<"bla">>)>>)
        generated == registerAll(<<>>, <<Unnamed("langId", <<>>)>>)
        first == registerAll(<<>>, <<Unnamed("langId", <<"text/langId",
                                                         "text/langId2">>)>>)
        first2 == registerAll(generated, <<Unnamed("langId", <<"text/langId">>)>>)
        a0 == registerAll(<<>>, <<Unnamed("a", <<>>)>>)
        a1 == registerAll(a0, <<Named("a", <<"A1", "A2">>, <<>>)>>)
        a2 == registerAll(a1, <<Named("a", <<"A3", "A4">>, <<>>)>>)
        b0 == registerAll(a0, <<Named("b", <<>>, <<>>)>>)
    IN  /\ getSortedRegisteredLanguageNames(output) = <<>>
        /\ getSortedRegisteredLanguageNames(alias) = <<Entry("LangName", "langId")>>
        /\ getLanguageName(alias, "langId") = <<"LangName">>
        /\ getSortedRegisteredLanguageNames(noAlias) = <<Entry("langId", "langId")>>
        /\ getLanguageName(noAlias, "langId") = <<"langId">>
        /\ getSortedRegisteredLanguageNames(bug4360) = <<Entry("LangName", "langId")>>
        /\ getLanguageName(bug4360, "langId") = <<"LangName">>
        /\ getSortedRegisteredLanguageNames(issue5278)
               = <<Entry("BetterLanguageName", "langId")>>
        /\ getLanguageName(issue5278, "langId") = <<"BetterLanguageName">>
        /\ getMimeType(generated, "langId") = <<"text/x-langId">>
        /\ getMimeType(first, "langId") = <<"text/langId">>
        /\ getMimeType(first2, "langId") = <<"text/x-langId">>
        /\ getSortedRegisteredLanguageNames(a0) = <<Entry("a", "a")>>
        /\ getLanguageIdByLanguageName(a0, "a") = <<"a">>
        /\ getLanguageName(a0, "a") = <<"a">>
        /\ getSortedRegisteredLanguageNames(a1) = <<Entry("A1", "a")>>
        /\ \A n \in {"a", "a1", "a2"} : getLanguageIdByLanguageName(a1, n) = <<"a">>
        /\ getLanguageName(a1, "a") = <<"A1">>
        /\ getSortedRegisteredLanguageNames(a2) = <<Entry("A3", "a")>>
        /\ \A n \in {"a", "a1", "a2", "a3", "a4"} :
               getLanguageIdByLanguageName(a2, n) = <<"a">>
        /\ getLanguageName(a2, "a") = <<"A3">>
        /\ getSortedRegisteredLanguageNames(b0) = <<Entry("a", "a")>>
        /\ getLanguageIdByLanguageName(b0, "a") = <<"a">>
        /\ getLanguageIdByLanguageName(b0, "b") = <<"b">>
        /\ getLanguageName(b0, "a") = <<"a">>
        /\ getLanguageName(b0, "b") = <<>>

\* The suite of part_000 on extensions, filenames and configuration.
RegistryFileTests ==
    LET aName == Named("a", <<"aName">>, <<>>)
        plain == Unnamed("a", <<>>)
        ext1 == registerAll(<<>>, <<[aName EXCEPT !.extensions = <<"aExt">>]>>)
        ext2 == registerAll(ext1, <<[plain EXCEPT !.extensions = <<"aExt2">>]>>)
        prim1 == registerAll(<<>>, <<[plain EXCEPT !.extensions = <<"aExt3">>]>>)
        prim2 == registerAll(prim1, <<[plain EXCEPT !.extensions = <<"aExt">>,
                                                   !.configuration = <<"conf.json">>]>>)
        prim3 == registerAll(prim2, <<[plain EXCEPT !.extensions = <<"aExt2">>]>>)
        file1 == registerAll(<<>>, <<[aName EXCEPT !.filenames = <<"aFilename">>]>>)
        file2 == registerAll(file1, <<[plain EXCEPT !.filenames = <<"aFilename2">>]>>)
        conf1 == registerAll(<<>>, <<[aName EXCEPT
                                        !.configuration = <<"/path/to/aFilename">>]>>)
        conf2 == registerAll(conf1, <<[plain EXCEPT
                                        !.configuration = <<"/path/to/aFilename2">>]>>)
    IN  /\ getExtensions(ext1, "a") = <<"aExt">>
        /\ getExtensions(ext2, "a") = <<"aExt", "aExt2">>
        /\ getExtensions(prim1, "a")[1] = "aExt3"
        /\ getExtensions(prim2, "a")[1] = "aExt"
        /\ getExtensions(prim3, "a")[1] = "aExt"
        /\ getFilenames(file1, "a") = <<"aFilename">>
        /\ getFilenames(file2, "a") = <<"aFilename", "aFilename2">>
        /\ getConfigurationFiles(conf1, "a") = <<"/path/to/aFilename">>
        /\ getConfigurationFiles(conf1, "aname") = <<>>
        /\ getConfigurationFiles(conf1, "aName") = <<>>
        /\ getConfigurationFiles(conf2, "a")
               = <<"/path/to/aFilename", "/path/to/aFilename2">>
        /\ getConfigurationFiles(conf2, "aname") = <<>>
        /\ getConfigurationFiles(conf2, "aName") = <<>>

RegistryInit ==
    /\ languages = <<>>
    /\ registrations = <<>>

\* registry._registerLanguages([lang])
registerOneOf(definitions) ==
    /\ Len(registrations) < MaxRegistrations
    /\ \E lang \in definitions :
        /\ languages' = _registerLanguage(languages, lang)
        /\ registrations' = Append(registrations, lang)

_registerLanguages == registerOneOf(LanguageDefinitions)

\* registry._registerLanguages([lang]) with a definition of FileDefinitions.
_registerLanguagesWithFiles == registerOneOf(FileDefinitions)

\* -------------------------------------------------------------- DiffReview
\* The diff review of src/unnamed/part_001: the diffs it computes from the
\* line changes of the diff editor.

VARIABLES
    lineChanges,        \* this._diffEditor.getLineChanges()
    originalLineCount,  \* originalModel.getLineCount()
    modifiedLineCount,  \* modifiedModel.getLineCount()
    _diffs,             \* this._diffs: a list of diffs, each a list of entries
    _isVisible,         \* this._isVisible
    _currentDiff,       \* this._currentDiff: <<>> for null or undefined, <<i>>
                        \* for the i-th of _diffs, <<0>> for a diff of an
                        \* earlier _compute
    position,           \* the line of this._diffEditor.getPosition()
    selection,          \* the lines of the selection: <<>> or <<start, end>>
    reviewOp,           \* ghost: the operation of the review that ran last
    navIn               \* ghost: what the last prev() or next() started from

reviewVars == <<lineChanges, originalLineCount, modifiedLineCount, _diffs,
                _isVisible, _currentDiff, position, selection, reviewOp, navIn>>

\* The text resource editor: an editor pane that shows the text model its
\* input resolves to.
VARIABLES
    input,                  \* this.input: "" or the input last set
    textModel,              \* the model of the editor control: "" or the
                            \* input whose resolved model it is
    readOnly,               \* the readOnly option of the editor control
    calls,                  \* the calls of setInput so far, in order
    hasModeSetExplicitly,   \* of the model of the untitled input
    languageIds,            \* the language of the text model of each input
    editorOp,               \* ghost: the operation of the editor that ran last
    editorIn,               \* ghost: what that operation was given
    effects                 \* ghost: the calls it made on the editor control
                            \* and on the model service

editorVars == <<input, textModel, readOnly, calls, hasModeSetExplicitly,
                languageIds, editorOp, editorIn, effects>>

restVars == <<regVars, reviewVars, editorVars>>

DIFF_LINES_PADDING == 3

\* new DiffEntry(...)
DiffEntry(originalLineStart, originalLineEnd, modifiedLineStart, modifiedLineEnd) ==
    [originalLineStart |-> originalLineStart, originalLineEnd |-> originalLineEnd,
     modifiedLineStart |-> modifiedLineStart, modifiedLineEnd |-> modifiedLineEnd]

\* DiffEntry.getType
getType(entry) ==
    IF entry.originalLineStart = 0 THEN "Insert"
    ELSE IF entry.modifiedLineStart = 0 THEN "Delete"
    ELSE "Equal"

\* ILineChange
LineChange(originalStart, originalEnd, modifiedStart, modifiedEnd) ==
    [originalStartLineNumber |-> originalStart,
     originalEndLineNumber |-> originalEnd,
     modifiedStartLineNumber |-> modifiedStart,
     modifiedEndLineNumber |-> modifiedEnd]

\* originalEqualAbove - DIFF_LINES_PADDING + 1: where the context before a
\* change starts, before it is kept out of the previous change.
\* (paddedFromWide: the + 1 forgotten.)
paddedFromWide(equalAbove) == equalAbove - DIFF_LINES_PADDING
paddedFrom(equalAbove) == equalAbove - DIFF_LINES_PADDING + 1

\* originalEqualBelow + DIFF_LINES_PADDING - 1: where the context after a
\* change ends, before it is kept out of the next change.
paddedTo(equalBelow) == equalBelow + DIFF_LINES_PADDING - 1

\* Emit before anchors.
beforeAnchor(changes, i) ==
    LET originalStart == changes[i].originalStartLineNumber
        originalEnd == changes[i].originalEndLineNumber
        modifiedStart == changes[i].modifiedStartLineNumber
        modifiedEnd == changes[i].modifiedEndLineNumber
        originalEqualAbove ==
            IF originalEnd = 0 THEN originalStart ELSE originalStart - 1
        modifiedEqualAbove ==
            IF modifiedEnd = 0 THEN modifiedStart ELSE modifiedStart - 1
        minOriginal ==
            IF i > 1
            THEN IF changes[i - 1].originalEndLineNumber = 0
                 THEN changes[i - 1].originalStartLineNumber + 1
                 ELSE changes[i - 1].originalEndLineNumber + 1
            ELSE 1
        minModified ==
            IF i > 1
            THEN IF changes[i - 1].modifiedEndLineNumber = 0
                 THEN changes[i - 1].modifiedStartLineNumber + 1
                 ELSE changes[i - 1].modifiedEndLineNumber + 1
            ELSE 1
        delta1 ==
            IF paddedFrom(originalEqualAbove) < minOriginal
            THEN minOriginal - paddedFrom(originalEqualAbove)
            ELSE 0
        fromOriginal1 == paddedFrom(originalEqualAbove) + delta1
        fromModified1 == paddedFrom(modifiedEqualAbove) + delta1
        delta2 ==
            IF fromModified1 < minModified THEN minModified - fromModified1 ELSE 0
    IN  DiffEntry(fromOriginal1 + delta2, originalEqualAbove,
                  fromModified1 + delta2, modifiedEqualAbove)

\* Emit after anchors.
afterAnchor(changes, i, originalCount, modifiedCount) ==
    LET originalStart == changes[i].originalStartLineNumber
        originalEnd == changes[i].originalEndLineNumber
        modifiedStart == changes[i].modifiedStartLineNumber
        modifiedEnd == changes[i].modifiedEndLineNumber
        originalEqualBelow ==
            IF originalEnd = 0 THEN originalStart + 1 ELSE originalEnd + 1
        modifiedEqualBelow ==
            IF modifiedEnd = 0 THEN modifiedStart + 1 ELSE modifiedEnd + 1
        maxOriginal ==
            IF i + 1 <= Len(changes)
            THEN IF changes[i + 1].originalEndLineNumber = 0
                 THEN changes[i + 1].originalStartLineNumber
                 ELSE changes[i + 1].originalStartLineNumber - 1
            ELSE originalCount
        maxModified ==
            IF i + 1 <= Len(changes)
            THEN IF changes[i + 1].modifiedEndLineNumber = 0
                 THEN changes[i + 1].modifiedStartLineNumber
                 ELSE changes[i + 1].modifiedStartLineNumber - 1
            ELSE modifiedCount
        delta1 ==
            IF paddedTo(originalEqualBelow) > maxOriginal
            THEN maxOriginal - paddedTo(originalEqualBelow)
            ELSE 0
        toOriginal1 == paddedTo(originalEqualBelow) + delta1
        toModified1 == paddedTo(modifiedEqualBelow) + delta1
        delta2 ==
            IF toModified1 > maxModified THEN maxModified - toModified1 ELSE 0
    IN  DiffEntry(originalEqualBelow, toOriginal1 + delta2,
                  modifiedEqualBelow, toModified1 + delta2)

\* The entries of the diff of one line change: the context before, the
\* deleted lines, the inserted lines, the context after.
changeEntries(changes, i, originalCount, modifiedCount) ==
    <<beforeAnchor(changes, i)>>
    \o (IF changes[i].originalEndLineNumber # 0
        THEN <<DiffEntry(changes[i].originalStartLineNumber,
                         changes[i].originalEndLineNumber, 0, 0)>>
        ELSE <<>>)
    \o (IF changes[i].modifiedEndLineNumber # 0
        THEN <<DiffEntry(0, 0, changes[i].modifiedStartLineNumber,
                         changes[i].modifiedEndLineNumber)>>
        ELSE <<>>)
    \o <<afterAnchor(changes, i, originalCount, modifiedCount)>>

\* Merge adjacent diffs: the loop from diff i on, curr being the diff under
\* construction and r the diffs finished.
RECURSIVE mergeFrom(_, _, _, _)
mergeFrom(diffs, i, curr, r) ==
    IF i > Len(diffs) THEN Append(r, curr)
    ELSE LET thisDiff == diffs[i]
             currLast == curr[Len(curr)]
             thisFirst == thisDiff[1]
         IN  IF /\ getType(currLast) = "Equal"
                /\ getType(thisFirst) = "Equal"
                /\ thisFirst.originalLineStart <= currLast.originalLineEnd
             THEN mergeFrom(diffs, i + 1,
                      SubSeq(curr, 1, Len(curr) - 1)
                      \o <<DiffEntry(currLast.originalLineStart,
                                     thisFirst.originalLineEnd,
                                     currLast.modifiedLineStart,
                                     thisFirst.modifiedLineEnd)>>
                      \o Tail(thisDiff),
                      r)
             ELSE mergeFrom(diffs, i + 1, thisDiff, Append(r, curr))

\* DiffReview._mergeAdjacent
_mergeAdjacent(changes, originalCount, modifiedCount) ==
    IF changes = <<>> THEN <<>>
    ELSE LET diffs == [i \in 1..Len(changes) |->
                          changeEntries(changes, i, originalCount, modifiedCount)]
         IN  mergeFrom(diffs, 2, diffs[1], <<>>)

\* DiffReview._compute, both models being there.
_compute(changes, originalCount, modifiedCount) ==
    _mergeAdjacent(changes, originalCount, modifiedCount)

\* What a line change does after a run of equal lines: the equal lines
\* before it on either side, and the lines it deletes and inserts.
ChangeShapes(gaps) ==
    {[gapOriginal |-> go, gapModified |-> gm, deleted |-> k[1], inserted |-> k[2]]
        : go \in gaps, gm \in gaps, k \in {<<1, 2>>, <<0, 1>>, <<2, 0>>}}

\* Every run of equal lines up to MaxGap, and the runs around the padding:
\* none, one line, as many as the padding, one more, and MaxGap.
AllGaps == 0..MaxGap
SomeGaps == {0, 1, DIFF_LINES_PADDING, DIFF_LINES_PADDING + 1, MaxGap}

\* The line changes of a list of shapes, from shape k on, o and m being the
\* last lines before it: sorted, and no two overlap.  A change without
\* original (modified) lines has end line 0 and the line before it as start.
RECURSIVE lineChangesFrom(_, _, _, _)
lineChangesFrom(shapes, k, o, m) ==
    IF k > Len(shapes) THEN [changes |-> <<>>, original |-> o, modified |-> m]
    ELSE LET sh == shapes[k]
             o1 == o + sh.gapOriginal
             m1 == m + sh.gapModified
             rest == lineChangesFrom(shapes, k + 1, o1 + sh.deleted,
                                     m1 + sh.inserted)
             change ==
                 LineChange(IF sh.deleted = 0 THEN o1 ELSE o1 + 1,
                            IF sh.deleted = 0 THEN 0 ELSE o1 + sh.deleted,
                            IF sh.inserted = 0 THEN m1 ELSE m1 + 1,
                            IF sh.inserted = 0 THEN 0 ELSE m1 + sh.inserted)
         IN  [rest EXCEPT !.changes = <<change>> \o @]

\* The lists of one line change, and those of two.
OneChange == {<<a>> : a \in ChangeShapes(AllGaps)}
TwoChanges == ChangeShapes(SomeGaps) \X ChangeShapes(SomeGaps)

ReviewInit ==
    /\ lineChanges = <<>>
    /\ originalLineCount = 1
    /\ modifiedLineCount = 1
    /\ _diffs = <<>>
    /\ _isVisible = FALSE
    /\ _currentDiff = <<>>
    /\ position = 1
    /\ selection = <<>>
    /\ reviewOp = "constructor"
    /\ navIn = <<>>

\* The diff editor has computed the line changes of its two models; the
\* review, not being visible, does nothing in onDidUpdateDiff.
diffUpdated(shapeLists, gaps) ==
    /\ ~_isVisible
    /\ reviewOp = "constructor"
    /\ reviewOp' = "onDidUpdateDiff"
    /\ \E shapes \in shapeLists, tailOriginal \in gaps, tailModified \in gaps :
          LET built == lineChangesFrom(shapes, 1, 0, 0) IN
          /\ lineChanges' = built.changes
          /\ originalLineCount' = built.original + tailOriginal
          /\ modifiedLineCount' = built.modified + tailModified
    /\ UNCHANGED <<_diffs, _isVisible, _currentDiff, position, selection, navIn>>

\* this._diffs = this._compute()
computeDiffs ==
    /\ reviewOp = "onDidUpdateDiff"
    /\ reviewOp' = "compute"
    /\ _diffs' = _compute(lineChanges, originalLineCount, modifiedLineCount)
    /\ UNCHANGED <<lineChanges, originalLineCount, modifiedLineCount, _isVisible,
                   _currentDiff, position, selection, navIn>>

\* DiffReview._findDiffIndex: the index, from 0, of the first diff whose last
\* entry ends at or below the line, and 0 when there is none.
RECURSIVE findFrom(_, _, _)
findFrom(diffs, lineNumber, i) ==
    IF i > Len(diffs) THEN 0
    ELSE IF lineNumber <= diffs[i][Len(diffs[i])].modifiedLineEnd THEN i - 1
    ELSE findFrom(diffs, lineNumber, i + 1)

_findDiffIndex(diffs, lineNumber) == findFrom(diffs, lineNumber, 1)

\* DiffReview._render, as far as _currentDiff goes: null when the review is
\* not visible, else this._diffs[diffIndex], which is undefined when there
\* are no diffs (the entries of undefined are then read, and _render throws).
\* A diff is named by its index, from 0, in _diffs.
_render(visible, diffs, lineNumber) ==
    IF ~visible \/ diffs = <<>> THEN <<>>
    ELSE <<_findDiffIndex(diffs, lineNumber)>>

\* The loop of prev() and next() that looks _currentDiff up in _diffs.
currentIndexOf(current) == IF current = <<>> THEN -1 ELSE current[1]

\* index = (this._diffs.length + currentIndex - 1)
prevIndex(length, currentIndex) == length + currentIndex - 1

\* index = (currentIndex + 1)
nextIndex(length, currentIndex) == currentIndex + 1

\* The % of the language: the sign of the dividend.
remainder(a, n) == IF a >= 0 THEN a % n ELSE 0 - ((0 - a) % n)

\* The editor keeps its cursor on a line of the model.
validLine(lineNumber, lineCount) ==
    IF lineNumber < 1 THEN 1
    ELSE IF lineNumber > lineCount THEN lineCount
    ELSE lineNumber

\* Line changes as a diff of two texts gives them: as many equal lines
\* before a change on one side as on the other.  Two changes may follow each
\* other without an equal line between them.
FirstShapes ==
    {sh \in ChangeShapes({0, MaxGap}) : sh.gapOriginal = sh.gapModified}
LaterShapes ==
    {sh \in ChangeShapes({0, 1, MaxGap}) : sh.gapOriginal = sh.gapModified}
FarShapes == {sh \in LaterShapes : sh.gapOriginal = MaxGap}

NoChange == {<<>>}
NavChanges ==
    NoChange \cup {<<a>> : a \in FirstShapes} \cup (FirstShapes \X LaterShapes)
    \cup {<<a, b, b>> : a \in FirstShapes, b \in FarShapes}

\* onDidUpdateDiff: the diff editor has computed the line changes of its two
\* models anew; the review, when visible, computes its diffs and renders.
onDidUpdateDiff(shapeLists) ==
    /\ reviewOp' = "onDidUpdateDiff"
    /\ \E shapes \in shapeLists, tail \in {0, MaxGap} :
          LET built == lineChangesFrom(shapes, 1, 0, 0)
              diffs == _compute(built.changes, built.original + tail,
                                built.modified + tail)
              line == validLine(position, built.modified + tail)
          IN
          /\ built.original + tail >= 1
          /\ built.modified + tail >= 1
          /\ lineChanges' = built.changes
          /\ originalLineCount' = built.original + tail
          /\ modifiedLineCount' = built.modified + tail
          /\ position' = line
          /\ IF _isVisible
             THEN /\ _diffs' = diffs
                  /\ _currentDiff' = _render(TRUE, diffs, line)
             ELSE UNCHANGED <<_diffs, _currentDiff>>
    /\ navIn' = <<>>
    /\ UNCHANGED <<_isVisible, selection>>

\* onDidChangeCursorPosition: the cursor of the modified editor has moved;
\* the review, when visible, renders.
onDidChangeCursorPosition ==
    /\ reviewOp' = "onDidChangeCursorPosition"
    /\ \E line \in 1..modifiedLineCount :
          /\ position' = line
          /\ _currentDiff' = _render(_isVisible, _diffs, line)
    /\ navIn' = <<>>
    /\ UNCHANGED <<lineChanges, originalLineCount, modifiedLineCount, _diffs,
                   _isVisible, selection>>

\* DiffReview.prev and DiffReview.next, which differ in the index they take
\* when the review is visible.  The cursor is set to the first line of the
\* diff and the selection then made from that line to its last line; the
\* diff editor leaves the cursor at one end of the selection.
navigate(name) ==
    LET diffs ==
            IF _isVisible THEN _diffs
            ELSE _compute(lineChanges, originalLineCount, modifiedLineCount)
        currentIndex == currentIndexOf(_currentDiff)
        index0 ==
            IF _isVisible
            THEN IF name = "prev" THEN prevIndex(Len(diffs), currentIndex)
                 ELSE nextIndex(Len(diffs), currentIndex)
            ELSE _findDiffIndex(diffs, position)
    IN
    /\ reviewOp' = name
    /\ navIn' = [visible |-> _isVisible, currentIndex |-> currentIndex]
    /\ _diffs' = diffs
    /\ IF Len(diffs) = 0
       THEN UNCHANGED <<_isVisible, _currentDiff, position, selection>>
       ELSE LET index == remainder(index0, Len(diffs))
                entries == diffs[index + 1]
                first == entries[1].modifiedLineStart
                last == entries[Len(entries)].modifiedLineEnd
            IN  /\ selection' = <<first, last>>
                /\ _isVisible' = TRUE
                /\ \E line \in {first, last} :
                      /\ position' = validLine(line, modifiedLineCount)
                      /\ _currentDiff' =
                             _render(TRUE, diffs,
                                     validLine(line, modifiedLineCount))
    /\ UNCHANGED <<lineChanges, originalLineCount, modifiedLineCount>>

prev == navigate("prev")

next == navigate("next")

\* DiffReview.hide
hide ==
    /\ reviewOp' = "hide"
    /\ _isVisible' = FALSE
    /\ _currentDiff' = _render(FALSE, _diffs, position)
    /\ navIn' = <<>>
    /\ UNCHANGED <<lineChanges, originalLineCount, modifiedLineCount, _diffs,
                   position, selection>>

\* DiffReview.accept, on a row of the visible review: hide, and the cursor
\* to the line of the row when it has one.
accept ==
    /\ _isVisible
    /\ reviewOp' = "accept"
    /\ _isVisible' = FALSE
    /\ _currentDiff' = _render(FALSE, _diffs, position)
    /\ \E line \in {position} \cup 1..modifiedLineCount : position' = line
    /\ navIn' = <<>>
    /\ UNCHANGED <<lineChanges, originalLineCount, modifiedLineCount, _diffs,
                   selection>>

\* ------------------------------------------------------ text resource editor

PLAINTEXT_LANGUAGE_ID == "plaintext"

\* The inputs shown: an UntitledTextEditorInput and a TextResourceEditorInput.
Inputs == {"untitled", "resource"}

\* The languages of a model; "" stands for no language (null, undefined or
\* the empty string) in a paste event and in a guess.
Languages == {PLAINTEXT_LANGUAGE_ID, "typescript"}
NoLanguage == ""

EditorInit ==
    /\ input = ""
    /\ textModel = ""
    /\ readOnly = FALSE
    /\ calls = <<>>
    /\ hasModeSetExplicitly = FALSE
    /\ languageIds = [i \in Inputs |-> PLAINTEXT_LANGUAGE_ID]
    /\ editorOp = "constructor"
    /\ editorIn = <<>>
    /\ effects = {}

\* token.isCancellationRequested
\* (neverCancelled: the check for cancellation dropped.)
neverCancelled(call) == FALSE
isCancellationRequested(call) == call.cancelled

\* AbstractTextResourceEditor.setInput up to the await of input.resolve():
\* super.setInput makes the input the input of the pane.
setInput(withOptions) ==
    /\ Len(calls) < MaxCalls
    /\ \E i \in Inputs, options \in withOptions :
          /\ input' = i
          /\ calls' = Append(calls, [input |-> i, options |-> options,
                                     cancelled |-> FALSE, pc |-> "resolve"])
          /\ editorIn' = <<i>>
    /\ editorOp' = "setInput"
    /\ effects' = {}
    /\ UNCHANGED <<textModel, readOnly, hasModeSetExplicitly, languageIds>>

\* The owner of the token of a call that waits for its input cancels it.
cancel ==
    /\ \E k \in 1..Len(calls) :
          /\ calls[k].pc = "resolve"
          /\ ~calls[k].cancelled
          /\ calls' = [calls EXCEPT ![k].cancelled = TRUE]
          /\ editorIn' = <<k>>
    /\ editorOp' = "cancel"
    /\ effects' = {}
    /\ UNCHANGED <<input, textModel, readOnly, hasModeSetExplicitly, languageIds>>

\* AbstractTextResourceEditor.setInput from the await of input.resolve() on:
\* the promise of call k settles, rejected, or resolved to a text model or to
\* another model; isReadonly is what the model says, optionsGotApplied what
\* applyTextEditorOptions returns.
resolveSettles ==
    /\ \E k \in 1..Len(calls),
          resolved \in {"rejected", "other", "text"},
          isReadonly \in BOOLEAN,
          optionsGotApplied \in BOOLEAN :
          LET call == calls[k] IN
          /\ call.pc = "resolve"
          /\ optionsGotApplied => call.options
          /\ editorIn' = <<k>>
          /\ IF resolved = "rejected"
             THEN /\ calls' = [calls EXCEPT ![k].pc = "thrown"]
                  /\ effects' = {}
                  /\ UNCHANGED <<textModel, readOnly>>
             ELSE IF isCancellationRequested(call)
             THEN /\ calls' = [calls EXCEPT ![k].pc = "returned"]
                  /\ effects' = {}
                  /\ UNCHANGED <<textModel, readOnly>>
             ELSE IF resolved # "text"
             THEN /\ calls' = [calls EXCEPT ![k].pc = "thrown"]
                  /\ effects' = {}
                  /\ UNCHANGED <<textModel, readOnly>>
             ELSE /\ calls' = [calls EXCEPT ![k].pc = "shown"]
                  /\ textModel' = call.input
                  /\ readOnly' = isReadonly
                  /\ effects' =
                         {"setModel", "updateOptions"}
                         \cup (IF call.options THEN {"applyTextEditorOptions"}
                               ELSE {})
                         \cup (IF optionsGotApplied THEN {}
                               ELSE {"restoreTextResourceEditorViewState"})
    /\ editorOp' = "resolveSettles"
    /\ UNCHANGED <<input, hasModeSetExplicitly, languageIds>>

\* AbstractTextResourceEditor.clearInput
clearInput ==
    /\ editorOp' = "clearInput"
    /\ input' = ""
    /\ textModel' = ""
    /\ editorIn' = <<>>
    /\ effects' = {"setModel"}
    /\ UNCHANGED <<readOnly, calls, hasModeSetExplicitly, languageIds>>

\* The user picks the language of the model of an input; the model of the
\* untitled input remembers that its mode was set explicitly.
setLanguage ==
    /\ \E i \in Inputs, languageId \in Languages :
          /\ languageIds' = [languageIds EXCEPT ![i] = languageId]
          /\ hasModeSetExplicitly' = (hasModeSetExplicitly \/ i = "untitled")
          /\ editorIn' = <<i, languageId>>
    /\ editorOp' = "setLanguage"
    /\ effects' = {}
    /\ UNCHANGED <<input, textModel, readOnly, calls>>

\* languageService.createById, as far as the language it selects goes:
\* plaintext for no language.
createById(languageId) ==
    IF languageId = NoLanguage THEN PLAINTEXT_LANGUAGE_ID ELSE languageId

\* TextResourceEditor.onDidEditorPaste: e is the paste event, guessed what
\* guessLanguageIdByFilepathOrFirstLine would return.
onDidEditorPaste ==
    /\ editorOp' = "onDidEditorPaste"
    /\ \E startLineNumber \in 1..2, startColumn \in 1..2,
          languageId \in Languages \cup {NoLanguage},
          guessed \in Languages \cup {NoLanguage} :
          LET candidateLanguageId ==
                  IF languageId # NoLanguage THEN languageId ELSE guessed
              currentLanguageId ==
                  IF textModel = "" THEN NoLanguage ELSE languageIds[textModel]
          IN
          /\ editorIn' = [startLineNumber |-> startLineNumber,
                          startColumn |-> startColumn,
                          languageId |-> languageId,
                          guessed |-> guessed,
                          currentLanguageId |-> currentLanguageId]
          /\ IF \/ input = "untitled" /\ hasModeSetExplicitly
                \/ startLineNumber # 1 \/ startColumn # 1
                \/ readOnly
                \/ textModel = ""
                \/ currentLanguageId # PLAINTEXT_LANGUAGE_ID
                \/ candidateLanguageId = PLAINTEXT_LANGUAGE_ID
             THEN /\ effects' = {}
                  /\ UNCHANGED languageIds
             ELSE /\ effects' = {"setMode"}
                  /\ languageIds' =
                         [languageIds EXCEPT
                             ![textModel] = createById(candidateLanguageId)]
    /\ UNCHANGED <<input, textModel, readOnly, calls, hasModeSetExplicitly>>

\* ------------------------------------------------------------ construction

excludePatterns == Excludes

Init ==
    /\ pc = "stat"
    /\ isDirectory = FALSE
    /\ dangling = FALSE
    /\ pathToWatch = WatchPath
    /\ watching = FALSE
    /\ isDisposed = FALSE
    /\ verboseLogging \in BOOLEAN
    /\ fileChangesBuffer = <<>>
    /\ timer = <<>>
    /\ pending = {}
    /\ sinceFire = CHANGE_BUFFER_DELAY * 2
    /\ sinceArm = 0
    /\ delayOut = <<>>
    /\ op = "constructor"
    /\ startIn = <<>>
    /\ ended = ""
    /\ eventIn = <<>>
    /\ flushIn = <<>>
    /\ changeOut = <<>>
    /\ logOut = <<>>
    /\ RegistryInit
    /\ ReviewInit
    /\ EditorInit
    /\ twin = [verboseLogging |-> FALSE, fileChangesBuffer |-> <<>>,
               timer |-> <<>>, changeOut |-> <<>>]

\* The second watcher in a step that neither buffers nor flushes.
twinIdle == twin' = [twin EXCEPT !.changeOut = <<>>]

\* What no operation but onFileChange, the flush and the clock touches.
NoDelivery ==
    /\ eventIn' = <<>>
    /\ flushIn' = <<>>
    /\ changeOut' = <<>>
    /\ delayOut' = <<>>
    /\ UNCHANGED <<fileChangesBuffer, pending, sinceFire, sinceArm>>

\* What no operation but startWatching touches.
NoStart ==
    /\ startIn' = <<>>
    /\ UNCHANGED ended
    /\ UNCHANGED restVars

\* ----------------------------------------------------------- startWatching

\* catch (error): every error but ENOENT is logged.
\* (catchLogAll: a catch that logs ENOENT too; catchLogNone: a catch that
\* swallows every error.)
catchLogAll(code) == error(code)
catchLogNone(code) == <<>>
catchLog(code) == IF code # "ENOENT" THEN error(code) ELSE <<>>

\* if (symbolicLink.dangling) return: after a failed realpath the start-up
\* gives up only for a dangling link.  (givesUpAlways: a start-up that gives
\* up after every failed realpath.)
givesUpAlways(isDangling) == TRUE
givesUp(isDangling) == isDangling

\* The tail of startWatching from the "Request to start watching" trace on.
\* before: the entries logged earlier in the same step.
Subscribe(before, path) ==
    /\ dangling' = FALSE
    /\ pathToWatch' = path
    /\ logOut' = before \o trace("request")
    /\ watching' = register(watching)
    /\ ended' = "subscribed"
    /\ pc' = "done"

\* await SymlinkSupport.stat(this.path) settles.
StatSettles ==
    /\ pc = "stat"
    /\ op' = "stat"
    /\ \E outcome \in {"ok", "ENOENT", "EACCES"}, isDir \in BOOLEAN,
          link \in {"none", "link", "dangling"} :
        /\ startIn' = <<[outcome |-> outcome, link |-> link]>>
        /\ IF outcome # "ok"
           THEN /\ logOut' = catchLog(outcome)
                /\ pc' = "done"
                /\ ended' = outcome
                /\ UNCHANGED <<isDirectory, dangling, pathToWatch, watching>>
           ELSE IF isDisposed
           THEN /\ logOut' = <<>>
                /\ pc' = "done"
                /\ ended' = "disposed"
                /\ UNCHANGED <<isDirectory, dangling, pathToWatch, watching>>
           ELSE /\ isDirectory' = isDir
                /\ IF link # "none"
                   THEN /\ pc' = "realpath"
                        /\ dangling' = (link = "dangling")
                        /\ logOut' = <<>>
                        /\ UNCHANGED <<pathToWatch, watching, ended>>
                   ELSE Subscribe(<<>>, WatchPath)
    /\ NoDelivery
    /\ twinIdle
    /\ UNCHANGED <<isDisposed, verboseLogging, timer>>
    /\ UNCHANGED restVars

\* await realpath(pathToWatch) settles.
RealpathSettles ==
    /\ pc = "realpath"
    /\ op' = "realpath"
    /\ \E resolved \in BOOLEAN :
        /\ startIn' = <<[resolved |-> resolved, dangling |-> dangling]>>
        /\ IF resolved
           THEN Subscribe(<<>>, ResolvedPath)
           ELSE IF givesUp(dangling)
           THEN /\ logOut' = error("realpath")
                /\ pc' = "done"
                /\ ended' = "dangling"
                /\ dangling' = FALSE
                /\ UNCHANGED <<pathToWatch, watching>>
           ELSE Subscribe(error("realpath"), WatchPath)
    /\ NoDelivery
    /\ twinIdle
    /\ UNCHANGED <<isDirectory, isDisposed, verboseLogging, timer>>
    /\ UNCHANGED restVars

\* ------------------------------------------------------------ onFileChange

\* this.fileChangesDelayer.trigger(...) ends onFileChange, whether or not
\* the event was ignored.  (delayerAfterGated: trigger only for buffered
\* events; delayerAfterIdle: no trigger.)
delayerAfterGated(ignored, t) == IF ignored THEN t ELSE trigger(t)
delayerAfterIdle(ignored, t) == t
delayerAfter(ignored, t) == trigger(t)

\* if (!this.isPathIgnored(...)) push, else trace if verbose: whether the
\* event is pushed.  (pushesUnlessTraced: the two tests nested the other way
\* round, so that an ignored event is dropped only when it is traced.)
pushesUnlessTraced(ignored, verbose) == ~ignored \/ ~verbose
pushes(ignored, verbose) == ~ignored

\* this.fileChangesBuffer.push(event), if the event is pushed.
pushed(buffer, event, verbose) ==
    IF pushes(isPathIgnored(event.path, excludePatterns), verbose)
    THEN Append(buffer, [type |-> event.type, path |-> event.path,
                         id |-> NextId(buffer)])
    ELSE buffer

onFileChange(event, max) ==
    LET ignored == isPathIgnored(event.path, excludePatterns) IN
    /\ ~pushes(ignored, verboseLogging) \/ Len(fileChangesBuffer) < max
    /\ op' = "onFileChange"
    /\ eventIn' = <<event>>
    /\ logOut' = (IF verboseLogging THEN trace("event") ELSE <<>>)
                 \o (IF ignored /\ verboseLogging THEN trace("ignored") ELSE <<>>)
    /\ fileChangesBuffer' = pushed(fileChangesBuffer, event, verboseLogging)
    /\ pending' = (IF pushes(ignored, verboseLogging)
                   THEN pending \cup {NextId(fileChangesBuffer)}
                   ELSE pending)
    /\ timer' = delayerAfter(ignored, timer)
    /\ twin' = [twin EXCEPT
                   !.fileChangesBuffer = pushed(@, event, twin.verboseLogging),
                   !.timer = delayerAfter(ignored, @),
                   !.changeOut = <<>>]
    /\ NoStart
    /\ sinceArm' = (IF timer = <<>> THEN 0 ELSE sinceArm)
    /\ delayOut' = <<>>
    /\ flushIn' = <<>>
    /\ changeOut' = <<>>
    /\ UNCHANGED <<pc, isDirectory, dangling, pathToWatch, watching, isDisposed,
                   verboseLogging, sinceFire>>

\* The watchFolder callback.
FolderEvent(max) ==
    /\ watching
    /\ isDirectory
    /\ \E eventType \in {"changed", "added", "deleted"}, name \in Names :
         onFileChange([type |-> FolderChangeType(eventType),
                       path |-> FolderEventPath(join(pathToWatch, name))], max)

\* The watchFile callback.
FileEvent(max) ==
    /\ watching
    /\ ~isDirectory
    /\ \E eventType \in {"changed", "deleted"} :
         onFileChange([type |-> FileChangeType(eventType), path |-> FileEventPath],
                      max)

\* The error callback of watchFolder / watchFile.
WatchError ==
    /\ watching
    /\ op' = "watchError"
    /\ logOut' = error("watch")
    /\ NoDelivery
    /\ twinIdle
    /\ NoStart
    /\ UNCHANGED <<pc, isDirectory, dangling, pathToWatch, watching, isDisposed,
                   verboseLogging, timer>>

\* ------------------------------------------------------- the delayer fires

\* The task given to fileChangesDelayer.trigger runs.
Flush ==
    /\ timer = <<0>>
    /\ op' = "flush"
    /\ \E table \in MergeTables :
       LET fileChanges == flushCaptured(fileChangesBuffer)
           coalescedFileChanges == flushCoalesced(table, fileChanges)
       IN /\ fileChangesBuffer' = flushSwapped(fileChangesBuffer)
          /\ flushIn' = fileChanges
          /\ pending' = pending \ Ids(fileChanges)
          /\ logOut' = flushTraces(coalescedFileChanges)
          /\ changeOut' = flushFire(coalescedFileChanges)
          /\ sinceFire' = (IF flushFire(coalescedFileChanges) # <<>> THEN 0
                           ELSE sinceFire)
          /\ twin' =
                IF twin.timer = <<0>>
                THEN [twin EXCEPT
                        !.fileChangesBuffer = flushSwapped(@),
                        !.timer = <<>>,
                        !.changeOut =
                            flushFire(flushCoalesced(table,
                                flushCaptured(twin.fileChangesBuffer)))]
                ELSE [twin EXCEPT !.changeOut = <<>>]
    /\ timer' = <<>>
    /\ NoStart
    /\ sinceArm' = 0
    /\ delayOut' = <<sinceArm, sinceFire>>
    /\ eventIn' = <<>>
    /\ UNCHANGED <<pc, isDirectory, dangling, pathToWatch, watching, isDisposed,
                   verboseLogging>>

\* The delayer's timer as one unit of time passes.
countDown(t) == IF t # <<>> /\ t[1] > 0 THEN <<t[1] - 1>> ELSE t

\* One unit of time passes.
Tick ==
    /\ op' = "tick"
    /\ NoStart
    /\ timer' = countDown(timer)
    /\ twin' = [twin EXCEPT !.timer = countDown(@), !.changeOut = <<>>]
    /\ sinceFire' = (IF sinceFire < CHANGE_BUFFER_DELAY * 2 THEN sinceFire + 1
                     ELSE sinceFire)
    /\ sinceArm' = (IF timer # <<>> /\ sinceArm < CHANGE_BUFFER_DELAY * 2
                    THEN sinceArm + 1 ELSE sinceArm)
    /\ delayOut' = <<>>
    /\ eventIn' = <<>>
    /\ flushIn' = <<>>
    /\ changeOut' = <<>>
    /\ logOut' = <<>>
    /\ UNCHANGED <<pc, isDirectory, dangling, pathToWatch, watching, isDisposed,
                   verboseLogging, fileChangesBuffer, pending>>

\* ---------------------------------------------------------------- the owner

setVerboseLogging(verbose) ==
    /\ op' = "setVerboseLogging"
    /\ verboseLogging' = verbose
    /\ logOut' = <<>>
    /\ NoDelivery
    /\ twinIdle
    /\ NoStart
    /\ UNCHANGED <<pc, isDirectory, dangling, pathToWatch, watching, isDisposed,
                   timer>>

SetVerbose == \E verbose \in BOOLEAN : setVerboseLogging(verbose)

\* dispose(), called once by the owner.
dispose ==
    /\ ~isDisposed
    /\ op' = "dispose"
    /\ isDisposed' = TRUE
    /\ watching' = disposeWatcher(watching)
    /\ timer' = disposeDelayer(timer)
    /\ logOut' = <<>>
    /\ NoDelivery
    /\ twin' = [twin EXCEPT !.timer = disposeDelayer(@), !.changeOut = <<>>]
    /\ NoStart
    /\ UNCHANGED <<pc, isDirectory, dangling, pathToWatch, verboseLogging>>

Next ==
    \/ StatSettles
    \/ RealpathSettles
    \/ FolderEvent(MaxBuffer)
    \/ FileEvent(MaxBuffer)
    \/ WatchError
    \/ Flush
    \/ Tick
    \/ SetVerbose
    \/ dispose

Spec == Init /\ [][Next]_vars

LiveNext ==
    \/ StatSettles
    \/ RealpathSettles
    \/ FolderEvent(MaxLiveBuffer)
    \/ FileEvent(MaxLiveBuffer)
    \/ WatchError
    \/ Flush
    \/ Tick
    \/ SetVerbose
    \/ dispose

\* The clock runs and the armed delayer fires when its time has come.
LiveSpec == Init /\ [][LiveNext]_vars /\ WF_vars(Tick) /\ WF_vars(Flush)

\* setVerboseLogging(verbose) on the second watcher alone.
twinSetVerboseLogging ==
    /\ \E verbose \in BOOLEAN : twin' = [twin EXCEPT !.verboseLogging = verbose]
    /\ UNCHANGED vars
    /\ UNCHANGED restVars

\* Two watchers side by side: every step of the first is taken by the
\* second, and each is given its own setVerboseLogging calls.
HyperNext ==
    \/ Next
    \/ twinSetVerboseLogging

HyperSpec == Init /\ [][HyperNext]_hyperVars

\* The registry alone: language definitions are registered one call after
\* the other, the watcher not having started.
RegistryStart == Init /\ ~verboseLogging

RegistryNext == _registerLanguages /\ UNCHANGED <<hyperVars, reviewVars, editorVars>>

RegistrySpec == RegistryStart /\ [][RegistryNext]_regVars

\* The registry alone, given definitions that carry extensions, filenames
\* and configurations.
RegistryFilesNext ==
    _registerLanguagesWithFiles /\ UNCHANGED <<hyperVars, reviewVars, editorVars>>

\* _mergeAdjacent alone: the diff editor computes line changes once and the
\* review computes its diffs from them.
MergeNext ==
    \/ diffUpdated(OneChange, AllGaps) /\ UNCHANGED <<hyperVars, regVars, editorVars>>
    \/ diffUpdated(TwoChanges, SomeGaps) /\ UNCHANGED <<hyperVars, regVars, editorVars>>
    \/ computeDiffs /\ UNCHANGED <<hyperVars, regVars, editorVars>>

MergeSpec == RegistryStart /\ [][MergeNext]_reviewVars

\* The review of a diff editor: the line changes computed after construction,
\* then navigation, cursor movement, hiding, and the diff computed anew after
\* an edit that leaves no line change.
NavNext ==
    \/ reviewOp = "constructor" /\ onDidUpdateDiff(NavChanges)
                                /\ UNCHANGED <<hyperVars, regVars, editorVars>>
    \/ reviewOp # "constructor" /\ onDidUpdateDiff(NoChange)
                                /\ UNCHANGED <<hyperVars, regVars, editorVars>>
    \/ onDidChangeCursorPosition /\ UNCHANGED <<hyperVars, regVars, editorVars>>
    \/ prev /\ UNCHANGED <<hyperVars, regVars, editorVars>>
    \/ next /\ UNCHANGED <<hyperVars, regVars, editorVars>>
    \/ hide /\ UNCHANGED <<hyperVars, regVars, editorVars>>
    \/ accept /\ UNCHANGED <<hyperVars, regVars, editorVars>>

NavSpec == RegistryStart /\ [][NavNext]_reviewVars

\* The editor and the calls of setInput on it: calls with and without
\* options, their tokens cancelled at any time, their inputs resolved in any
\* order.
InputNext ==
    \/ setInput(BOOLEAN) /\ UNCHANGED <<hyperVars, regVars, reviewVars>>
    \/ cancel /\ UNCHANGED <<hyperVars, regVars, reviewVars>>
    \/ resolveSettles /\ UNCHANGED <<hyperVars, regVars, reviewVars>>

InputSpec == RegistryStart /\ [][InputNext]_editorVars

\* The editor opened on one input, and pastes into it.
PasteNext ==
    \/ calls = <<>> /\ setInput({FALSE})
                    /\ UNCHANGED <<hyperVars, regVars, reviewVars>>
    \/ resolveSettles /\ UNCHANGED <<hyperVars, regVars, reviewVars>>
    \/ clearInput /\ UNCHANGED <<hyperVars, regVars, reviewVars>>
    \/ setLanguage /\ UNCHANGED <<hyperVars, regVars, reviewVars>>
    \/ onDidEditorPaste /\ UNCHANGED <<hyperVars, regVars, reviewVars>>

PasteSpec == RegistryStart /\ [][PasteNext]_editorVars

RegistryFilesSpec == RegistryStart /\ [][RegistryFilesNext]_regVars

\* ------------------------------------------------------------------ claims

\* A path that one of the exclude patterns given at construction matches.
Excluded(p) == \E k \in 1..Len(Excludes) : GlobMatch(Excludes[k], p)

\* The paths of a list of events, and the types of the events of one path.
PathsOf(events) == {events[i].path : i \in 1..Len(events)}
OfPath(events, p) == SelectSeq(Changes(events), LAMBDA e : e.path = p)

\* The full delay of the delayer.
FullDelay == CHANGE_BUFFER_DELAY * 2

\* C1: once dispose() has run, no step invokes the change callback again.
C1_NoChangeAfterDispose == isDisposed => changeOut = <<>>

\* C2: no batch passed to the change callback holds an event whose path
\* matches an exclude pattern.
C2_NoExcludedDelivered ==
    \A i \in 1..Len(changeOut) : \A j \in 1..Len(changeOut[i]) :
        ~Excluded(changeOut[i][j].path)

\* C2 witness: an excluded event arrived while other events were pending,
\* and it did not enter the buffer.
C2_Witness ==
    /\ op = "onFileChange"
    /\ Excluded(eventIn[1].path)
    /\ fileChangesBuffer # <<>>
    /\ \A i \in 1..Len(fileChangesBuffer) : ~Excluded(fileChangesBuffer[i].path)

\* C3: the change callback never gets an empty batch; a flush whose
\* coalesced list is empty invokes nothing, any other flush invokes it
\* exactly once, and no other step invokes it.
C3_NeverEmptyBatch ==
    /\ \A i \in 1..Len(changeOut) : changeOut[i] # <<>>
    /\ op = "flush" =>
         \E table \in MergeTables :
             changeOut = (IF coalesceEvents(table, flushIn) = <<>> THEN <<>>
                          ELSE <<coalesceEvents(table, flushIn)>>)
    /\ op # "flush" => changeOut = <<>>

\* C3 witness: a flush captured events that all cancelled out, and the
\* callback was skipped.
C3_Witness == op = "flush" /\ flushIn # <<>> /\ changeOut = <<>>

\* C4: every buffered event that no flush has captured yet is in the
\* buffer, exactly once, and a flush leaves a fresh empty buffer behind, so
\* each event is captured by exactly one flush.
C4_NoEventLostOrRepeated ==
    /\ pending = Ids(fileChangesBuffer)
    /\ Cardinality(Ids(fileChangesBuffer)) = Len(fileChangesBuffer)
    /\ op = "flush" => fileChangesBuffer = <<>>

\* C4 witness: an event arrived right after a flush delivered its batch and
\* sits alone in the new buffer, waiting for the next flush.
C4_Witness ==
    /\ op = "onFileChange"
    /\ sinceFire = 0
    /\ Len(fileChangesBuffer) = 1
    /\ pending = {0}

\* C5: a delivered batch holds at most one entry per distinct path.
C5_OneEntryPerPath ==
    \A i \in 1..Len(changeOut) :
        \A j, k \in 1..Len(changeOut[i]) :
            changeOut[i][j].path = changeOut[i][k].path => j = k

\* C5 witness: a flush captured several events of one path and delivered a
\* batch.
C5_Witness ==
    /\ op = "flush"
    /\ changeOut # <<>>
    /\ \E j, k \in 1..Len(flushIn) : j # k /\ flushIn[j].path = flushIn[k].path

\* C6 as stated: whenever an ADDED of a path is immediately followed by a
\* DELETED of that path in one window, the batch holds no event of the path.
C6_AddThenDeleteAsStated ==
    op = "flush" =>
        \A i \in 1..(Len(flushIn) - 1) :
            ( /\ flushIn[i].type = "ADDED"
              /\ flushIn[i + 1].type = "DELETED"
              /\ flushIn[i].path = flushIn[i + 1].path )
            => \A b \in 1..Len(changeOut) :
                   flushIn[i].path \notin PathsOf(changeOut[b])

\* C6 amended: when the events of a path in one window are exactly an ADDED
\* followed by a DELETED, the batch holds no event of the path, and when
\* nothing else was buffered no callback fires.
C6_AddThenDeleteAlone ==
    op = "flush" =>
        \A p \in PathsOf(flushIn) :
            (<<"ADDED", "DELETED">> =
                [i \in 1..Len(OfPath(flushIn, p)) |-> OfPath(flushIn, p)[i].type])
            => /\ \A b \in 1..Len(changeOut) : p \notin PathsOf(changeOut[b])
               /\ Len(flushIn) = 2 => changeOut = <<>>

\* C6 witness: a flush captured exactly an ADDED and then a DELETED of one
\* path, and no callback fired.
C6_Witness ==
    /\ op = "flush"
    /\ Len(flushIn) = 2
    /\ flushIn[1].type = "ADDED"
    /\ flushIn[2].type = "DELETED"
    /\ flushIn[1].path = flushIn[2].path
    /\ changeOut = <<>>

IsPrefix(s, t) == Len(s) <= Len(t) /\ SubSeq(t, 1, Len(s)) = s

\* C8: a buffered event is eventually captured by a flush, unless the
\* watcher is disposed of, whatever raw events keep arriving: a non-empty
\* buffer leads to a flush, a flush captures the whole buffer, and until
\* then the buffer keeps every event it holds.
C8_BufferedEventIsFlushed ==
    /\ [][IF op' = "flush" THEN flushIn' = fileChangesBuffer
          ELSE IsPrefix(fileChangesBuffer, fileChangesBuffer')]_vars
    /\ (fileChangesBuffer # <<>>)
           ~> ((op = "flush" /\ flushIn # <<>>) \/ isDisposed)

\* C8 witness: a flush captured an event together with events that arrived
\* after it, while the timer was running.
C8_Witness ==
    /\ op = "flush"
    /\ ~isDisposed
    /\ Len(flushIn) >= 2

\* C9: a change callback fires no earlier than one full delay
\* (CHANGE_BUFFER_DELAY * 2) after the raw event that armed the timer and
\* after the change callback before it.
C9_OneCallbackPerDelay ==
    changeOut # <<>> =>
        /\ Len(changeOut) = 1
        /\ delayOut[1] >= FullDelay
        /\ delayOut[2] >= FullDelay

\* C9 witness: a burst of raw events was delivered by one callback.
C9_Witness ==
    /\ changeOut # <<>>
    /\ Len(flushIn) >= 2
    /\ delayOut = <<FullDelay, FullDelay>>

\* C10: once dispose() has run, no step invokes the log callback again.
C10_NoLogAfterDispose == isDisposed => logOut = <<>>

\* C10 witness: the watch primitive reported an error after disposal, a
\* start-up having completed after disposal, and nothing was logged.
C10_Witness == isDisposed /\ op = "watchError" /\ logOut = <<>>

\* Entries of type 'error' among the entries a step logged.
ErrorEntries(entries) == SelectSeq(entries, LAMBDA m : m.type = "error")

\* C11: every event of a delivered batch carries the path the owner
\* supplied (file target) or that path joined with the base name of the
\* changed entry (directory target), and never a path at or under the
\* resolved-symlink path, also when the subscription is on the resolved path.
C11_DeliveredPathsAreOriginal ==
    \A i \in 1..Len(changeOut) : \A k \in 1..Len(changeOut[i]) :
        LET p == changeOut[i][k].path IN
        /\ IF isDirectory
           THEN \E name \in Names : p = join(WatchPath, name)
           ELSE p = WatchPath
        /\ ~IsPrefix(ResolvedPath, p)

\* C11 witness: a batch was delivered by a watcher of a directory that
\* subscribed to the resolved path of a symbolic link.
C11_Witness ==
    /\ changeOut # <<>>
    /\ isDirectory
    /\ pathToWatch = ResolvedPath

\* C12 (as stated): once start-up has ended on a dangling symbolic link
\* (realpath failed and the link is dangling) there is no subscription, no
\* step has invoked the log callback with an 'error' entry, and no change
\* callback fires.
C12_DanglingAbortsSilently ==
    ended = "dangling" =>
        /\ ~watching
        /\ changeOut = <<>>
        /\ ErrorEntries(logOut) = <<>>

\* C13: once stat has failed with ENOENT nothing is logged, there is no
\* subscription, and the watcher is inert: nothing is buffered, the timer
\* is never armed and no change callback fires.
C13_NotFoundIsSwallowed ==
    ended = "ENOENT" =>
        /\ logOut = <<>>
        /\ ~watching
        /\ pc = "done"
        /\ fileChangesBuffer = <<>>
        /\ timer = <<>>
        /\ changeOut = <<>>

\* C13 witness: stat has just failed with ENOENT on a watcher that is not
\* disposed.
C13_Witness ==
    /\ op = "stat"
    /\ startIn = <<[outcome |-> "ENOENT", link |-> "none"]>>
    /\ ~isDisposed

\* The step reported an error: stat failed with a code other than ENOENT,
\* realpath failed, or the watch primitive called the error callback.
ErrorStep ==
    \/ op = "stat" /\ startIn[1].outcome \notin {"ok", "ENOENT"}
    \/ op = "realpath" /\ ~startIn[1].resolved
    \/ op = "watchError"

\* C14: a step that reports a start-up error other than ENOENT or a runtime
\* error of the watch primitive invokes the log callback with exactly one
\* 'error' entry if the watcher is not disposed and with none if it is,
\* fires no change callback, and leaves the buffer and the timer as they
\* were.
C14_ErrorsAreOnlyLogged ==
    [][ErrorStep' =>
          /\ Len(ErrorEntries(logOut')) = (IF isDisposed THEN 0 ELSE 1)
          /\ changeOut' = <<>>
          /\ UNCHANGED <<fileChangesBuffer, pending, timer, isDisposed>>]_vars

\* C14 witness: the watch primitive reported an error to a live watcher
\* while events were buffered and the timer was armed.
C14_Witness ==
    /\ op = "watchError"
    /\ ErrorEntries(logOut) # <<>>
    /\ fileChangesBuffer # <<>>
    /\ timer # <<>>

\* C15: when realpath fails on a symbolic link that is not dangling, the
\* error is logged (unless the watcher is disposed) and the watcher
\* subscribes, the path to watch being the path the owner supplied.
C15_UnresolvedLinkIsWatched ==
    (op = "realpath" /\ startIn = <<[resolved |-> FALSE, dangling |-> FALSE]>>) =>
        /\ ~isDisposed => Len(ErrorEntries(logOut)) = 1
        /\ watching
        /\ ended = "subscribed"
        /\ pathToWatch = WatchPath

\* C15 witness: realpath has just failed on a link that is not dangling,
\* the watcher not being disposed.
C15_Witness ==
    /\ op = "realpath"
    /\ startIn = <<[resolved |-> FALSE, dangling |-> FALSE]>>
    /\ ~isDisposed
    /\ watching

\* ------------------------------------------- claims on LanguagesRegistry

\* The definitions registered so far for a language, oldest first.
RegsOf(id) == SelectSeq(registrations, LAMBDA r : r.id = id)

\* The entries of getSortedRegisteredLanguageNames for a language.
EntriesOf(id) ==
    SelectSeq(getSortedRegisteredLanguageNames(languages),
              LAMBDA e : e.languageId = id)

\* C17: once a language has been registered with a non-empty aliases
\* array, its name and its one entry in the sorted names are the first
\* alias of the most recent such registration, whatever was registered for
\* it afterwards with an empty aliases array.
C17_NameIsLatestFirstAlias ==
    \A id \in LanguageIds :
        LET named == SelectSeq(RegsOf(id), LAMBDA r : r.aliases # <<>>) IN
        named # <<>> =>
            LET best == named[Len(named)].aliases[1] IN
            /\ getLanguageName(languages, id) = <<best>>
            /\ EntriesOf(id) = <<[languageName |-> best, languageId |-> id]>>

\* C17 witness: a language was registered with aliases, then with an empty
\* aliases array, then with other aliases, and carries the first of the
\* last ones as its name.
C17_Witness ==
    LET regs == RegsOf("a") IN
    /\ Len(regs) = 3
    /\ regs[1].aliases = <<"A1", "A2">>
    /\ regs[2].hasAliases /\ regs[2].aliases = <<>>
    /\ regs[3].aliases = <<"a1", "A3">>
    /\ getLanguageName(languages, "a") = <<"a1">>

\* C18: a language registered only without an aliases field has its id as
\* its name; a language registered only with an empty aliases array has no
\* name and no entry in the sorted names, while its id resolves to it; and
\* registering a definition of one language changes the name of no other.
C18_NameWithoutAliases ==
    /\ [](\A id \in DOMAIN languages :
            /\ (\A k \in 1..Len(RegsOf(id)) : ~RegsOf(id)[k].hasAliases) =>
                   /\ getLanguageName(languages, id) = <<id>>
                   /\ EntriesOf(id) = <<[languageName |-> id, languageId |-> id]>>
            /\ (\A k \in 1..Len(RegsOf(id)) :
                    RegsOf(id)[k].hasAliases /\ RegsOf(id)[k].aliases = <<>>) =>
                   /\ getLanguageName(languages, id) = <<>>
                   /\ EntriesOf(id) = <<>>
                   /\ getLanguageIdByLanguageName(languages, id) = <<id>>)
    /\ [][\A id \in LanguageIds :
             registrations'[Len(registrations')].id # id =>
                 /\ getLanguageName(languages', id) = getLanguageName(languages, id)
                 /\ \A k \in 1..Len(EntriesOf(id)) :
                        \E j \in 1..Len(getSortedRegisteredLanguageNames(languages')) :
                            getSortedRegisteredLanguageNames(languages')[j]
                                = EntriesOf(id)[k]]_regVars

\* C18 witness: one language was registered without an aliases field and
\* another only with an empty aliases array, which was registered last.
C18_Witness ==
    /\ Len(registrations) = 2
    /\ registrations[1].id = "a" /\ ~registrations[1].hasAliases
    /\ registrations[2].id = "b" /\ registrations[2].hasAliases
    /\ registrations[2].aliases = <<>>
    /\ getLanguageName(languages, "a") = <<"a">>
    /\ getLanguageName(languages, "b") = <<>>

\* C19: getMimeType of a registered language is the first mimetype of the
\* first definition registered for it, or 'text/x-' followed by the id if
\* that definition lists none, whatever was registered afterwards.
C19_FirstMimetypeWins ==
    \A id \in DOMAIN languages :
        LET first == RegsOf(id)[1] IN
        getMimeType(languages, id)
            = <<IF first.mimetypes # <<>> THEN first.mimetypes[1]
                ELSE "text/x-" \o id>>

\* C19 witness: a language was first registered without mimetypes and later
\* with mimetypes, and its mimetype is the generated one.
C19_Witness ==
    LET regs == RegsOf("a") IN
    /\ Len(regs) >= 2
    /\ regs[1].mimetypes = <<>>
    /\ regs[2].mimetypes = <<"text/a2", "text/a">>
    /\ getMimeType(languages, "a") = <<"text/x-a">>

\* C20: the id of a registered language, every alias ever registered for
\* it and the lower-cased form of every such alias resolve to the id.
C20_AliasesAccumulate ==
    \A id \in DOMAIN languages :
        /\ getLanguageIdByLanguageName(languages, id) = <<id>>
        /\ \A k \in 1..Len(RegsOf(id)) :
              \A j \in 1..Len(RegsOf(id)[k].aliases) :
                LET alias == RegsOf(id)[k].aliases[j] IN
                /\ getLanguageIdByLanguageName(languages, alias) = <<id>>
                /\ getLanguageIdByLanguageName(languages, toLowerCase(alias))
                       = <<id>>

\* C20 witness: the name of a language was overridden by a later
\* registration and an alias of the earlier one, in lower case, still
\* resolves to the language.
C20_Witness ==
    LET regs == RegsOf("a") IN
    /\ Len(regs) >= 2
    /\ regs[1].aliases = <<"A1", "A2">>
    /\ regs[2].aliases = <<"a1", "A3">>
    /\ getLanguageName(languages, "a") = <<"a1">>
    /\ getLanguageIdByLanguageName(languages, "a2") = <<"a">>

\* ------------------------------------------------ claims on two watchers

\* Entries of type 'trace' among the entries a step logged.
TraceEntries(entries) == SelectSeq(entries, LAMBDA m : m.type = "trace")

\* C16: of two watchers given the same raw events, timer fires and owner
\* calls but for their verbose flags, each step delivers the same batches
\* to both change callbacks and leaves both with the same buffer and the
\* same timer; and a step logs 'trace' entries only if the flag of the
\* watcher is set.
C16_VerboseDoesNotInterfere ==
    /\ twin.changeOut = changeOut
    /\ twin.fileChangesBuffer = fileChangesBuffer
    /\ twin.timer = timer
    /\ TraceEntries(logOut) # <<>> => verboseLogging

\* C16 witness: a flush delivered a batch to both watchers after an
\* excluded event had been traced and dropped, the first watcher tracing
\* and the second not.
C16_Witness ==
    /\ op = "flush"
    /\ changeOut # <<>>
    /\ twin.changeOut = changeOut
    /\ verboseLogging /\ ~twin.verboseLogging
    /\ TraceEntries(logOut) # <<>>

\* ------------------------------------ claims on the registry's file lists

\* The extensions, filenames and configurations of the first n of a list
\* of definitions, in the order of the definitions.
RECURSIVE ExtensionsOf(_, _)
ExtensionsOf(regs, n) ==
    IF n = 0 THEN <<>> ELSE ExtensionsOf(regs, n - 1) \o regs[n].extensions

\* The same, the last definition first.
RECURSIVE ExtensionsOfReversed(_, _)
ExtensionsOfReversed(regs, n) ==
    IF n = 0 THEN <<>>
    ELSE regs[n].extensions \o ExtensionsOfReversed(regs, n - 1)

RECURSIVE FilenamesOf(_, _)
FilenamesOf(regs, n) ==
    IF n = 0 THEN <<>> ELSE FilenamesOf(regs, n - 1) \o regs[n].filenames

RECURSIVE ConfigurationsOf(_, _)
ConfigurationsOf(regs, n) ==
    IF n = 0 THEN <<>> ELSE ConfigurationsOf(regs, n - 1) \o regs[n].configuration

C22_NoSubscriptionAfterEarlyDispose ==
    /\ (pc = "done" /\ isDisposed) => ~watching
    /\ isDisposed => op # "onFileChange"

\* ---------------------------------------------------- claims on DiffReview

\* The original and the modified lines an entry covers.
OriginalLines(entry) == entry.originalLineStart..entry.originalLineEnd
ModifiedLines(entry) == entry.modifiedLineStart..entry.modifiedLineEnd

\* The original and the modified lines the line changes delete or insert.
ChangedOriginalLines ==
    UNION {lineChanges[i].originalStartLineNumber..lineChanges[i].originalEndLineNumber
             : i \in {j \in 1..Len(lineChanges) :
                         lineChanges[j].originalEndLineNumber # 0}}
ChangedModifiedLines ==
    UNION {lineChanges[i].modifiedStartLineNumber..lineChanges[i].modifiedEndLineNumber
             : i \in {j \in 1..Len(lineChanges) :
                         lineChanges[j].modifiedEndLineNumber # 0}}

\* An entry of equal lines that covers at most DIFF_LINES_PADDING lines on
\* either side, all of them lines of the two models and none of them a line
\* of a line change.
IsContext(entry) ==
    /\ entry.originalLineStart # 0
    /\ entry.modifiedLineStart # 0
    /\ Cardinality(OriginalLines(entry)) <= DIFF_LINES_PADDING
    /\ Cardinality(ModifiedLines(entry)) <= DIFF_LINES_PADDING
    /\ entry.originalLineStart >= 1
    /\ entry.modifiedLineStart >= 1
    /\ entry.originalLineEnd <= originalLineCount
    /\ entry.modifiedLineEnd <= modifiedLineCount
    /\ OriginalLines(entry) \cap ChangedOriginalLines = {}
    /\ ModifiedLines(entry) \cap ChangedModifiedLines = {}

\* C23: every diff _mergeAdjacent returns begins and ends with an entry of
\* equal lines that covers at most DIFF_LINES_PADDING lines, stays within
\* line 1 and the line counts, and holds no line of a line change.
C23_ContextIsPaddedAndClamped ==
    reviewOp = "compute" =>
        \A d \in 1..Len(_diffs) :
            /\ IsContext(_diffs[d][1])
            /\ IsContext(_diffs[d][Len(_diffs[d])])

\* C23 witness: two line changes gave two diffs; the context before the
\* first is cut short by line 1, and the contexts between the two cover
\* DIFF_LINES_PADDING lines each.
C23_Witness ==
    /\ reviewOp = "compute"
    /\ Len(_diffs) = 2
    /\ Cardinality(OriginalLines(_diffs[1][1])) = 1
    /\ Cardinality(OriginalLines(_diffs[1][Len(_diffs[1])])) = DIFF_LINES_PADDING
    /\ Cardinality(OriginalLines(_diffs[2][1])) = DIFF_LINES_PADDING

\* The diff, by its index from 0, that holds a line of the modified text: the
\* first one whose last line is that line or a later one, the first diff
\* when there is none.
DiffAt(diffs, lineNumber) ==
    LET at == {i \in 1..Len(diffs) :
                  lineNumber <= diffs[i][Len(diffs[i])].modifiedLineEnd}
    IN  IF at = {} THEN 0
        ELSE (CHOOSE i \in at : \A j \in at : i <= j) - 1

\* What a step of next() or prev() does, nextStep telling which: on a
\* visible review of n >= 1 diffs whose current diff has index i the current
\* diff becomes the one of index (i + 1) mod n, or (i - 1) mod n; on a review
\* that is not visible it becomes the diff found from the position of the
\* cursor; with no diffs visibility, position and selection stay.
Navigated(nextStep) ==
    LET n == Len(_diffs') IN
    IF n = 0
    THEN UNCHANGED <<_isVisible, position, selection>>
    ELSE /\ _isVisible'
         /\ _isVisible => _currentDiff # <<>> /\ _diffs' = _diffs
         /\ _currentDiff' =
                IF ~_isVisible THEN <<DiffAt(_diffs', position)>>
                ELSE IF nextStep THEN <<(_currentDiff[1] + 1) % n>>
                ELSE <<(_currentDiff[1] - 1) % n>>

\* C26: navigation is cyclic.  next() on a visible review of n >= 1 diffs
\* whose current diff has index i makes the diff of index (i + 1) mod n the
\* current one, prev() the diff of index (i - 1) mod n; on a review that is
\* not visible either makes the diff found from the position of the cursor
\* current; with no diffs next() and prev() leave visibility, position and
\* selection as they were.
C26_NavigationIsCyclic ==
    [][/\ reviewOp' = "next" => Navigated(TRUE)
       /\ reviewOp' = "prev" => Navigated(FALSE)]_reviewVars

\* next() on a visible review of three diffs, the last one current, has made
\* the first one current.
C26_Witness ==
    /\ reviewOp = "next"
    /\ navIn # <<>>
    /\ navIn.visible
    /\ Len(_diffs) = 3
    /\ navIn.currentIndex = 2
    /\ _currentDiff = <<0>>

\* C24: onDidEditorPaste calls modelService.setMode, and the language of the
\* model changes, only when the input is not an untitled input whose mode
\* was set explicitly, the paste starts at line 1, column 1, the editor is
\* not read-only, a model is attached, its language is plaintext, and the
\* paste event or the guess gave a language that is not plaintext.
C24_PasteSetsModeOnlyForSpecificLanguage ==
    (editorOp = "onDidEditorPaste" /\ "setMode" \in effects) =>
        /\ ~(input = "untitled" /\ hasModeSetExplicitly)
        /\ editorIn.startLineNumber = 1
        /\ editorIn.startColumn = 1
        /\ ~readOnly
        /\ textModel # ""
        /\ editorIn.currentLanguageId = PLAINTEXT_LANGUAGE_ID
        /\ \/ editorIn.languageId \in Languages \ {PLAINTEXT_LANGUAGE_ID}
           \/ /\ editorIn.languageId = NoLanguage
              /\ editorIn.guessed \in Languages \ {PLAINTEXT_LANGUAGE_ID}

\* The calls of setInput that have come to their end.
Ended(k) == calls[k].pc # "resolve"

\* C25: a call of setInput whose token is cancelled before its input has
\* resolved returns without a call on the editor control (no model set, no
\* options applied, no view state restored, readOnly not updated); and once
\* all calls have ended, the earlier ones cancelled and the last one having
\* resolved to a text model with its token not cancelled, the editor shows
\* the model of the last one.
C25_CancelledSetInputLeavesEditor ==
    /\ (editorOp = "resolveSettles" /\ calls[editorIn[1]].cancelled) =>
           /\ effects = {}
           /\ calls[editorIn[1]].pc \in {"returned", "thrown"}
    /\ ( /\ Len(calls) >= 2
         /\ \A k \in 1..Len(calls) : Ended(k)
         /\ \A k \in 1..(Len(calls) - 1) : calls[k].cancelled
         /\ calls[Len(calls)].pc = "shown" ) =>
           textModel = calls[Len(calls)].input

\* The earlier of two calls, cancelled, has resolved after the later one,
\* which is for another input, and the editor shows the model of the later.
C25_Witness ==
    /\ editorOp = "resolveSettles"
    /\ Len(calls) = 2
    /\ editorIn = <<1>>
    /\ calls[1].pc = "returned"
    /\ calls[2].pc = "shown"
    /\ calls[1].input # calls[2].input
    /\ textModel = calls[2].input

====
